---- MODULE Spec2Model ----
(***************************************************************************)
(* Model of nisl/searchlight.py: the GroupIterator partitioner, the group  *)
(* worker _group_iter_search_light and the orchestrator search_light.      *)
(*                                                                         *)
(* Center and column indices are 0-based as in the source; TLA+ sequences  *)
(* are 1-based, so position j of a Python list is position j+1 here.       *)
(***************************************************************************)
EXTENDS Integers, Sequences, FiniteSets, TLC

\* ---------------------------------------------------------------- bounds
MaxCenters == 2        \* A.shape[0] ranges over 0..MaxCenters
MaxColumns == 2        \* A.shape[1] ranges over 1..MaxColumns
MaxJobs == 4           \* largest n_jobs argument
MaxInvalid == 2        \* n_jobs arguments go down to -MaxInvalid
MaxCpu == 2            \* cpu_count() ranges over 1..MaxCpu
MaxFeaturesGI == 7     \* n_features of the stand-alone GroupIterator runs
MaxJobsGI == 5         \* n_jobs of the stand-alone GroupIterator runs

VARIABLES
    n_features,   \* A.shape[0]: number of centers
    n_columns,    \* A.shape[1]: number of columns of X
    n_jobs,       \* the n_jobs argument of search_light / GroupIterator
    inproc,       \* Parallel runs the tasks in the calling process (no pool)
    rows0,        \* A.rows as handed to search_light
    rows,         \* A.rows of the caller, now
    pc,           \* search_light: "init", "parallel", "returned", "failed"
    err,          \* the exception search_light raised, "none" if none
    gi_n_jobs,    \* GroupIterator.n_jobs
    gen,          \* GroupIterator.__iter__: "unstarted", "running", "exhausted"
    split,        \* the blocks np.array_split produced
    yielded,      \* number of blocks the generator has yielded
    w,            \* w[b]: the _group_iter_search_light call on block b
    finished,     \* blocks in the order their calls returned
    scores,       \* the local variable scores of line 62
    ret           \* the value search_light returned

vars == <<n_features, n_columns, n_jobs, inproc, rows0, rows, pc, err,
          gi_n_jobs, gen, split, yielded, w, finished, scores, ret>>

\* ------------------------------------------------------------- helpers
Range(s) == {s[j] : j \in DOMAIN s}

RECURSIVE flatten(_)
flatten(ss) == IF ss = << >> THEN << >> ELSE Head(ss) \o flatten(Tail(ss))

\* np.arange(n)
arange(n) == [j \in 1..n |-> j - 1]

\* np.zeros(n)
zeros(n) == [j \in 1..n |-> 0]

\* Rows of a lil_matrix: strictly ascending column indices below ncol.
SortedRows(ncol) ==
    {s \in UNION {[1..k -> 0..(ncol - 1)] : k \in 0..ncol} :
        \A a, b \in DOMAIN s : a < b => s[a] < s[b]}

\* ------------------------------------------------------- GroupIterator
\* faulty variant: every n_jobs <= 0 resolves to cpu_count()
resolve_any_nonpositive(nj, cpu) == IF nj <= 0 THEN cpu ELSE nj
\* GroupIterator.__init__: n_jobs == -1 resolves to cpu_count().
resolve_n_jobs(nj, cpu) == IF nj = -1 THEN cpu ELSE nj

\* np.array_split(ary, Nsections) for an integer Nsections > 0:
\*   Neach_section, extras = divmod(Ntotal, Nsections)
\*   section_sizes = [0] + extras * [Neach_section + 1]
\*                       + (Nsections - extras) * [Neach_section]
\*   div_points = cumsum(section_sizes)
\*   sub_arys[i] = ary[div_points[i]:div_points[i + 1]]
section_size(Ntotal, Nsections, k) ==
    IF k = 0 THEN 0
    ELSE IF k <= Ntotal % Nsections
         THEN (Ntotal \div Nsections) + 1
         ELSE Ntotal \div Nsections

RECURSIVE div_point(_, _, _)
div_point(Ntotal, Nsections, k) ==
    IF k = 0 THEN 0
    ELSE div_point(Ntotal, Nsections, k - 1) + section_size(Ntotal, Nsections, k)

slice(ary, lo, hi) == [j \in 1..(hi - lo) |-> ary[lo + j]]

\* faulty variant: every section gets Neach_section elements, the remainder is lost
array_split_truncated(ary, Nsections) ==
    [k \in 1..Nsections |->
        slice(ary, (k - 1) * (Len(ary) \div Nsections),
                   k * (Len(ary) \div Nsections))]

\* faulty variant: the extra elements go to the last sections instead of the first
array_split_extras_last(ary, Nsections) ==
    LET each == Len(ary) \div Nsections
        extras == Len(ary) % Nsections
        start(k) == (k - 1) * each
                    + (IF k - 1 > Nsections - extras
                       THEN k - 1 - (Nsections - extras) ELSE 0)
    IN [k \in 1..Nsections |-> slice(ary, start(k), start(k + 1))]

\* faulty variant: adjacent sections share their boundary element
array_split_overlap(ary, Nsections) ==
    [k \in 1..Nsections |->
        LET lo == div_point(Len(ary), Nsections, k - 1)
            hi == div_point(Len(ary), Nsections, k)
        IN slice(ary, IF lo > 0 /\ lo < hi THEN lo - 1 ELSE lo, hi)]

array_split(ary, Nsections) ==
    [k \in 1..Nsections |->
        slice(ary, div_point(Len(ary), Nsections, k - 1),
                   div_point(Len(ary), Nsections, k))]

\* The first next() on the generator runs array_split, which raises
\* ValueError when the number of sections is not positive.
GenRaises == gen = "unstarted" /\ gi_n_jobs <= 0
GenSplit ==
    IF gen = "unstarted"
    THEN array_split(arange(n_features), gi_n_jobs)
    ELSE split
GenHasNext == /\ gen # "exhausted"
              /\ ~GenRaises
              /\ yielded < Len(GenSplit)
GenExhausts == /\ gen # "exhausted"
               /\ ~GenRaises
               /\ yielded = Len(GenSplit)

\* ---------------------------------------------------- the group worker
IdleWorker ==
    [pc |-> "idle", list_i |-> << >>, list_rows |-> << >>, i |-> 0,
     par_scores |-> << >>, thread_id |-> 0, err |-> "none"]

\* faulty variants: the center is appended without the membership test, or
\* inserted at the front of the row
fixup_always(row, c) == Append(row, c)
fixup_front(row, c) == IF c \in Range(row) THEN row ELSE <<c>> \o row

\* Lines 145-146: append the center to its row when it is missing.
fixup(row, c) == IF c \in Range(row) THEN row ELSE Append(row, c)

\* X[:, row] raises IndexError when a column index is outside X.
columns_ok(row, ncol) == \A j \in DOMAIN row : row[j] \in 0..(ncol - 1)

\* np.mean(cross_val_score(estimator, X[:, row], y, ...)) with a
\* deterministic estimator and splitter: a function of the selected columns
\* and of their order, here a positional encoding of the column list.
RECURSIVE mean_cv_score(_, _)
mean_cv_score(row, ncol) ==
    IF row = << >> THEN 0
    ELSE mean_cv_score(SubSeq(row, 1, Len(row) - 1), ncol) * (ncol + 1)
         + row[Len(row)] + 1

\* faulty variant: the exception is noted and the loop goes on, leaving the
\* zero of np.zeros in par_scores
swallow_in_loop(wr, kind) == [wr EXCEPT !.i = @ + 1, !.err = kind]

\* An exception raised in the loop body leaves the function at once.
raise_in_loop(wr, kind) == [wr EXCEPT !.pc = "failed", !.err = kind]

\* ------------------------------------------------------- search_light
\* A.rows[list_i]
take_rows(rs, list_i) == [j \in DOMAIN list_i |-> rs[list_i[j]]]

\* faulty variant: the arrays are joined in the order the calls returned
concatenate_completion(outs) ==
    flatten([k \in DOMAIN finished |-> outs[finished[k]]])

\* np.concatenate over the list Parallel returns, which is in task order.
concatenate(outs) == flatten(outs)

\* Parallel(n_jobs=n_jobs): a negative n_jobs stands for cpu_count() + 1 +
\* n_jobs workers, at least one.  One worker means no pool: the tasks run in
\* the calling process, one after the other.  More than one means a pool of
\* processes, each task working on pickled copies of its arguments, unless
\* no pool can be made (multiprocessing missing, or the caller is itself a
\* daemonic pool process), which again leaves the calling process.
pool_size(nj, cpu) ==
    IF nj < 0
    THEN (IF cpu + 1 + nj > 1 THEN cpu + 1 + nj ELSE 1)
    ELSE nj

NJobsValues == (0 - MaxInvalid)..MaxJobs

Init ==
    /\ n_features \in 0..MaxCenters
    /\ n_columns \in 1..MaxColumns
    /\ n_jobs \in NJobsValues
    /\ inproc = TRUE
    /\ rows0 \in [0..(n_features - 1) -> SortedRows(n_columns)]
    /\ rows = rows0
    /\ pc = "init"
    /\ err = "none"
    /\ gi_n_jobs = 0
    /\ gen = "unstarted"
    /\ split = << >>
    /\ yielded = 0
    /\ w = << >>
    /\ finished = << >>
    /\ scores = << >>
    /\ ret = << >>

\* Lines 62-64: scores = np.zeros(len(A.rows)); GroupIterator(A.shape[0],
\* n_jobs); Parallel(n_jobs=n_jobs, verbose=verbose) is built and called.
GroupIteratorInit ==
    /\ pc = "init"
    /\ \E cpu \in 1..MaxCpu :
          /\ gi_n_jobs' = resolve_n_jobs(n_jobs, cpu)
          /\ inproc' \in (IF pool_size(n_jobs, cpu) = 1 THEN {TRUE} ELSE BOOLEAN)
    /\ scores' = zeros(n_features)
    /\ pc' = "parallel"
    /\ UNCHANGED <<n_features, n_columns, n_jobs, rows0, rows, err,
                   gen, split, yielded, w, finished, ret>>

\* Parallel pulls the next task from the generator expression of lines
\* 65-68 and dispatches it.  Without a pool the task runs in the caller
\* before the next one is pulled.
Dispatch ==
    /\ pc = "parallel"
    /\ inproc => \A b \in DOMAIN w : w[b].pc \in {"idle", "done"}
    /\ \/ /\ GenRaises
          /\ pc' = "failed"
          /\ err' = "ValueError"
          /\ UNCHANGED <<gen, split, yielded, w>>
       \/ /\ GenHasNext
          /\ LET sp == GenSplit
                 b == yielded + 1
                 ws == IF gen = "unstarted"
                       THEN [k \in DOMAIN sp |-> IdleWorker] ELSE w
             IN /\ split' = sp
                /\ gen' = "running"
                /\ yielded' = b
                /\ w' = [ws EXCEPT ![b] =
                            [IdleWorker EXCEPT
                                !.pc = "start",
                                !.list_i = sp[b],
                                !.list_rows = take_rows(rows, sp[b])]]
          /\ UNCHANGED <<pc, err>>
       \/ /\ GenExhausts
          /\ gen' = "exhausted"
          /\ split' = GenSplit
          /\ UNCHANGED <<pc, err, yielded, w>>
    /\ UNCHANGED <<n_features, n_columns, n_jobs, inproc, rows0, rows,
                   gi_n_jobs, finished, scores, ret>>

\* Lines 141-143: par_scores = np.zeros(len(list_rows)) and
\* thread_id = (list_i[0] + 1) / len(list_i) + 1, where list_i[0] raises
\* IndexError on an empty block.
WorkerStart(b) ==
    /\ pc = "parallel"
    /\ b \in DOMAIN w
    /\ w[b].pc = "start"
    /\ IF Len(w[b].list_i) = 0
       THEN /\ w' = [w EXCEPT ![b] =
                        [@ EXCEPT !.pc = "failed",
                                  !.err = "IndexError_list_i",
                                  !.par_scores = zeros(Len(w[b].list_rows))]]
            /\ finished' = finished
       ELSE /\ w' = [w EXCEPT ![b] =
                        [@ EXCEPT !.pc = "loop",
                                  !.par_scores = zeros(Len(w[b].list_rows)),
                                  !.thread_id =
                                      ((w[b].list_i[1] + 1)
                                         \div Len(w[b].list_i)) + 1]]
            /\ finished' = finished
    /\ UNCHANGED <<n_features, n_columns, n_jobs, inproc, rows0, rows, pc,
                   err, gi_n_jobs, gen, split, yielded, scores, ret>>

\* Lines 144-149: one iteration of the loop over list_rows.
WorkerEval(b) ==
    /\ pc = "parallel"
    /\ b \in DOMAIN w
    /\ w[b].pc = "loop"
    /\ w[b].i < Len(w[b].list_rows)
    /\ LET k == w[b].i + 1
           c == w[b].list_i[k]
           row == fixup(w[b].list_rows[k], c)
           wr == [w[b] EXCEPT !.list_rows[k] = row]
       IN /\ rows' = IF inproc THEN [rows EXCEPT ![c] = row] ELSE rows
          /\ \/ /\ ~columns_ok(row, n_columns)
                /\ w' = [w EXCEPT ![b] = raise_in_loop(wr, "IndexError_X")]
                /\ finished' = finished
             \/ /\ columns_ok(row, n_columns)
                /\ w' = [w EXCEPT ![b] = raise_in_loop(wr, "EstimatorError")]
                /\ finished' = finished
             \/ /\ columns_ok(row, n_columns)
                /\ w' = [w EXCEPT ![b] =
                            [wr EXCEPT
                                !.par_scores[k] = mean_cv_score(row, n_columns),
                                !.i = k]]
                /\ finished' = finished
    /\ UNCHANGED <<n_features, n_columns, n_jobs, inproc, rows0, pc, err,
                   gi_n_jobs, gen, split, yielded, scores, ret>>

\* Line 168: return par_scores.
WorkerReturn(b) ==
    /\ pc = "parallel"
    /\ b \in DOMAIN w
    /\ w[b].pc = "loop"
    /\ w[b].i = Len(w[b].list_rows)
    /\ w' = [w EXCEPT ![b].pc = "done"]
    /\ finished' = Append(finished, b)
    /\ UNCHANGED <<n_features, n_columns, n_jobs, inproc, rows0, rows, pc,
                   err, gi_n_jobs, gen, split, yielded, scores, ret>>

\* Parallel re-raises the exception of a failed task in the caller: at once
\* when the task ran in the caller, and otherwise when it collects the
\* results, one task after the other in task order, after the last dispatch.
Fail ==
    /\ pc = "parallel"
    /\ inproc \/ gen = "exhausted"
    /\ \E b \in DOMAIN w :
          /\ w[b].pc = "failed"
          /\ \A a \in 1..(b - 1) : w[a].pc = "done"
          /\ err' = w[b].err
    /\ pc' = "failed"
    /\ UNCHANGED <<n_features, n_columns, n_jobs, inproc, rows0, rows,
                   gi_n_jobs, gen, split, yielded, w, finished, scores, ret>>

\* Lines 64 and 69: Parallel returns the list of results once every task
\* has ended; search_light returns their concatenation.
Concatenate ==
    /\ pc = "parallel"
    /\ gen = "exhausted"
    /\ \A b \in DOMAIN w : w[b].pc = "done"
    /\ scores' = [b \in DOMAIN w |-> w[b].par_scores]
    /\ ret' = concatenate(scores')
    /\ pc' = "returned"
    /\ UNCHANGED <<n_features, n_columns, n_jobs, inproc, rows0, rows, err,
                   gi_n_jobs, gen, split, yielded, w, finished>>

Next ==
    \/ GroupIteratorInit
    \/ Dispatch
    \/ \E b \in 1..(MaxJobs + MaxCpu) : WorkerStart(b)
    \/ \E b \in 1..(MaxJobs + MaxCpu) : WorkerEval(b)
    \/ \E b \in 1..(MaxJobs + MaxCpu) : WorkerReturn(b)
    \/ Fail
    \/ Concatenate

Spec == Init /\ [][Next]_vars

\* ------------------------------------------- GroupIterator on its own
\* list(GroupIterator(n_features, n_jobs)): the same constructor and
\* generator, with nothing dispatched.
InitGI ==
    /\ n_features \in 0..MaxFeaturesGI
    /\ n_columns = 1
    /\ n_jobs \in (0 - MaxInvalid)..MaxJobsGI
    /\ inproc = TRUE
    /\ rows0 = [i \in 0..(n_features - 1) |-> << >>]
    /\ rows = rows0
    /\ pc = "init"
    /\ err = "none"
    /\ gi_n_jobs = 0
    /\ gen = "unstarted"
    /\ split = << >>
    /\ yielded = 0
    /\ w = << >>
    /\ finished = << >>
    /\ scores = << >>
    /\ ret = << >>

\* One next() on GroupIterator.__iter__ (lines 93-96).
GroupIteratorNext ==
    /\ pc = "parallel"
    /\ \/ /\ GenRaises
          /\ pc' = "failed"
          /\ err' = "ValueError"
          /\ UNCHANGED <<gen, split, yielded>>
       \/ /\ GenHasNext
          /\ split' = GenSplit
          /\ gen' = "running"
          /\ yielded' = yielded + 1
          /\ UNCHANGED <<pc, err>>
       \/ /\ GenExhausts
          /\ gen' = "exhausted"
          /\ split' = GenSplit
          /\ UNCHANGED <<pc, err, yielded>>
    /\ UNCHANGED <<n_features, n_columns, n_jobs, inproc, rows0, rows,
                   gi_n_jobs, w, finished, scores, ret>>

NextGI ==
    \/ GroupIteratorInit
    \/ GroupIteratorNext

SpecGI == InitGI /\ [][NextGI]_vars

\* ------------------------------------------------------------- claims
YieldedBlocks == SubSeq(split, 1, yielded)

ValidNJobs == n_jobs >= 1 \/ n_jobs = -1

\* The row of center c after the self-inclusion step, from the row handed in.
ExpectedRow(c) ==
    IF \E j \in DOMAIN rows0[c] : rows0[c][j] = c
    THEN rows0[c]
    ELSE rows0[c] \o <<c>>

RECURSIVE Offset(_)
Offset(b) == IF b <= 1 THEN 0 ELSE Offset(b - 1) + Len(w[b - 1].par_scores)

SomeWorkerFailed == \E b \in DOMAIN w : w[b].pc = "failed"

\* C1: the blocks GroupIterator yields are each ascending and pairwise
\* disjoint, and joined in yield order they are 0, 1, ..., n_features - 1:
\* at every moment the blocks yielded so far join to an initial stretch of
\* that sequence, and to all of it once the iterator is exhausted.
C1_PartitionCoverage ==
    (ValidNJobs /\ gen # "unstarted") =>
        LET bs == YieldedBlocks
            cat == flatten(bs)
        IN /\ \A j \in DOMAIN cat : cat[j] = j - 1
           /\ Len(cat) <= n_features
           /\ gen = "exhausted" => Len(cat) = n_features
           /\ \A b \in DOMAIN bs : \A a, c \in DOMAIN bs[b] :
                  a < c => bs[b][a] < bs[b][c]
           /\ \A b1, b2 \in DOMAIN bs :
                  b1 # b2 => Range(bs[b1]) \cap Range(bs[b2]) = {}

C1_Witness ==
    /\ gen = "exhausted"
    /\ n_features >= 5
    /\ gi_n_jobs = 3
    /\ yielded = 3

\* C2: GroupIterator yields exactly n_jobs blocks (the processor count for
\* n_jobs = -1), any two sizes differ by at most 1, exactly the first
\* n_features mod n_jobs blocks hold one element more, and the empty
\* trailing blocks of n_jobs > n_features are yielded too.
C2_BalancedBlocks ==
    (ValidNJobs /\ pc = "parallel") =>
        /\ n_jobs >= 1 => gi_n_jobs = n_jobs
        /\ n_jobs = -1 => gi_n_jobs \in 1..MaxCpu
        /\ yielded <= gi_n_jobs
        /\ gen # "unstarted" => Len(split) = gi_n_jobs
        /\ gen = "exhausted" => yielded = gi_n_jobs
        /\ \A b \in DOMAIN split :
              Len(split[b]) = (n_features \div gi_n_jobs)
                              + (IF b <= n_features % gi_n_jobs THEN 1 ELSE 0)
        /\ \A b1, b2 \in DOMAIN split :
              Len(split[b1]) - Len(split[b2]) \in {-1, 0, 1}

C2_Witness ==
    /\ gen = "exhausted"
    /\ gi_n_jobs > n_features
    /\ n_features >= 2
    /\ yielded = gi_n_jobs
    /\ Len(split[1]) = 1
    /\ Len(split[gi_n_jobs]) = 0

\* C3 (as stated): for every valid n_jobs and every number of centers a call
\* in which no estimator fails returns a vector of length A.shape[0] whose
\* entry k is the score of center k, hence the same vector for every n_jobs.
C3_Original ==
    (/\ pc \in {"returned", "failed"}
     /\ ValidNJobs
     /\ \A b \in DOMAIN w : w[b].err # "EstimatorError")
    => /\ pc = "returned"
       /\ Len(ret) = n_features
       /\ \A k \in 0..(n_features - 1) :
              ret[k + 1] = mean_cv_score(ExpectedRow(k), n_columns)

\* C4: when every group worker completes, the returned vector is the
\* per-block score arrays joined in block order, whatever the order in which
\* the workers returned.
C4_BlockOrderConcatenation ==
    pc = "returned" =>
        /\ Len(ret) = Offset(Len(w) + 1)
        /\ \A b \in DOMAIN w : \A j \in DOMAIN w[b].par_scores :
              ret[Offset(b) + j] = w[b].par_scores[j]

C4_Witness ==
    /\ pc = "returned"
    /\ Len(finished) >= 2
    /\ finished[1] > finished[2]
    /\ ret[1] # ret[2]

\* C5 (as stated): after search_light returns, every row i of the caller's A
\* holds i: appended once at the end when it was missing, the row unchanged
\* when it was there.
C5_Original ==
    pc = "returned" => \A i \in DOMAIN rows : rows[i] = ExpectedRow(i)

\* C5 (amended): after search_light returns, every center i was scored by
\* one worker on a row that holds i (appended once at the end when it was
\* missing, unchanged otherwise); the caller's A shows these rows when the
\* workers ran in the caller's process, and is left as it was handed in when
\* they ran in processes of a pool.
C5_SelfInclusion ==
    pc = "returned" =>
        /\ \A i \in DOMAIN rows0 :
              \E b \in DOMAIN w : \E j \in DOMAIN w[b].list_i :
                  w[b].list_i[j] = i
        /\ \A b \in DOMAIN w : \A j \in DOMAIN w[b].list_i :
              w[b].list_rows[j] = ExpectedRow(w[b].list_i[j])
        /\ inproc => \A i \in DOMAIN rows : rows[i] = ExpectedRow(i)
        /\ ~inproc => rows = rows0

C5_Witness ==
    /\ pc = "returned"
    /\ ~inproc
    /\ \E i \in DOMAIN rows0 : i \notin Range(rows0[i])
    /\ \E i \in DOMAIN rows0 : i \in Range(rows0[i]) /\ Len(rows0[i]) >= 2

\* C6: the blocks handed to distinct group workers are pairwise disjoint and
\* each worker holds the rows of its own block; a step that changes a row
\* is the step of the one worker whose block holds that center, at that
\* center, appends the center and changes no other row.
C6_DisjointBlocks ==
    \A b1, b2 \in DOMAIN w :
        b1 # b2 => Range(w[b1].list_i) \cap Range(w[b2].list_i) = {}

C6_AppendStep ==
    /\ \A i \in DOMAIN rows :
          rows'[i] # rows[i] =>
              /\ rows'[i] = rows[i] \o <<i>>
              /\ \A k \in DOMAIN rows : k # i => rows'[k] = rows[k]
              /\ \E b \in DOMAIN w :
                    /\ w[b].pc = "loop"
                    /\ w[b].list_i[w[b].i + 1] = i
                    /\ w'[b].list_rows[w[b].i + 1] = rows'[i]
                    /\ \A a \in DOMAIN w : a # b => w'[a] = w[a]
    /\ \A b \in DOMAIN w : \A j \in DOMAIN w[b].list_rows :
          w'[b].list_rows[j] # w[b].list_rows[j] =>
              /\ w[b].pc = "loop"
              /\ j = w[b].i + 1
              /\ w'[b].list_rows[j] = w[b].list_rows[j] \o <<w[b].list_i[j]>>
              /\ \A a \in DOMAIN w : a # b => w'[a] = w[a]

C6_DisjointRows == [](C6_DisjointBlocks) /\ [][C6_AppendStep]_vars

C6_Witness ==
    \E b1, b2 \in DOMAIN w :
        /\ b1 # b2
        /\ w[b1].pc = "loop"
        /\ w[b2].pc = "loop"
        /\ w[b1].i = 1
        /\ w[b1].list_rows[1] # rows0[w[b1].list_i[1]]

\* C7: a worker in which the evaluation of a center failed has stopped for
\* good, search_light has not returned and never returns a vector, and the
\* only way the call can end is by failing.
C7_NoResult ==
    /\ \A b \in DOMAIN w : w[b].err # "none" => w[b].pc = "failed"
    /\ SomeWorkerFailed => (pc # "returned" /\ ret = << >>)
    /\ (SomeWorkerFailed /\ ~ENABLED Next) => pc = "failed"

C7_Stopped ==
    \A b \in DOMAIN w : w[b].pc = "failed" => w'[b] = w[b]

C7_FailFast == [](C7_NoResult) /\ [][C7_Stopped]_vars

C7_Witness ==
    /\ pc = "failed"
    /\ \E b \in DOMAIN w :
          /\ w[b].err = "EstimatorError"
          /\ w[b].i = 0
          /\ Len(w[b].list_i) >= 2

\* C8: with n_jobs zero or negative other than -1 no group worker is ever
\* invoked, no row changes and nothing is returned; the call ends, and only
\* by raising ValueError.
C8_InvalidNJobsRejected ==
    ~ValidNJobs =>
        /\ pc \in {"init", "parallel", "failed"}
        /\ pc = "failed" => err = "ValueError"
        /\ pc # "failed" => ENABLED Next
        /\ yielded = 0
        /\ w = << >>
        /\ rows = rows0
        /\ ret = << >>

C8_Witness ==
    /\ ~ValidNJobs
    /\ pc = "failed"
    /\ err = "ValueError"
    /\ \E i \in DOMAIN rows0 : i \notin Range(rows0[i])

\* C9 (as stated): on every block the partitioner produces, the empty ones
\* included, the group worker fails only if the evaluation of a center
\* fails, and otherwise returns one score per center of the block, in the
\* block's order (an empty array for an empty block).
C9_Original ==
    \A b \in DOMAIN w :
        /\ w[b].pc = "failed" => w[b].err \in {"EstimatorError", "IndexError_X"}
        /\ w[b].pc = "done" =>
              /\ Len(w[b].par_scores) = Len(w[b].list_i)
              /\ \A j \in DOMAIN w[b].list_i :
                    w[b].par_scores[j] =
                        mean_cv_score(ExpectedRow(w[b].list_i[j]), n_columns)

\* C10 (as stated): rows that start with valid column indices of X only hold
\* valid column indices at every moment, in the caller's A and in every
\* worker, for every shape of A.
C10_Original ==
    /\ \A i \in DOMAIN rows : columns_ok(rows[i], n_columns)
    /\ \A b \in DOMAIN w : \A j \in DOMAIN w[b].list_rows :
          columns_ok(w[b].list_rows[j], n_columns)

====
